---- MODULE Spec2Model ----
(***************************************************************************)
(* Byte Wrangler: the mini-game embedded in the Railway container manager  *)
(* page (pages/index.tsx), together with the shell state that opens,       *)
(* closes and restarts it.                                                 *)
(*                                                                         *)
(* Lengths are integers in units of 1/Unit pixel, so that the ghosts'      *)
(* sub-pixel velocities (|v| < 0.75 px per frame) are representable.       *)
(* Every handler of the component is one atomic action: the browser runs   *)
(* them on one thread.  A handler's React state updates are applied        *)
(* together with the effect they trigger (the [showGame, gameResult]       *)
(* effect that arms the 100 ms start timer).                               *)
(***************************************************************************)
EXTENDS Integers, Sequences, FiniteSets, TLC

\* ------------------------------------------------------------- bounds
Unit == 2          \* model length units per pixel
MaxSessions == 1   \* sessions started per run
MaxRelay == 2      \* sessions started per run where one session follows another
MaxInFlight == 2   \* start-deployment requests in flight at once
MaxClockSteps == 8 \* clock advances per run
PageLoadTime == 5000   \* Date.now() at page load, in ms (past the first spawn interval)
ClockStepMs == 1001    \* one clock advance, in ms
MaxReopen == 1     \* restartGame re-open timers pending at once
FrameMs == 16      \* clock time between two animation frames, in the timed runs
MaxFrames == 6     \* animation frames per timed run

\* ------------------------------------------------- program constants
totalBytes == 20
totalGhosts == 3
GameSeconds == 15
SpawnIntervalMs == 1000
SpeedThreshold == 10
FastMultiplier == 2
FollowEpsilon == 5
FollowStep == 3

canvasWidth == 600 * Unit
canvasHeight == 400 * Unit
controllerSize == 20 * Unit
container == [x |-> 250 * Unit, y |-> 200 * Unit, width |-> 200 * Unit, height |-> 100 * Unit]

Max(a, b) == IF a >= b THEN a ELSE b
Min(a, b) == IF a <= b THEN a ELSE b

VARIABLES
    \* React state of Home
    boredMode, showGame, gameResult, timeLeft, isDeploying, isLoading, bytesWrangled,
    \* refs
    gameIntervalRef, animationRef,
    \* host scheduler: timeouts, intervals, animation frames, DOM listeners
    startTimer, reopenTimers, intervals, frames, listeners, canvasAlive,
    requests,
    \* the clock read by Date.now()
    now,
    \* closure of the latest startGame call
    sid, closure, bytes, ghosts, controller, caughtBytes, eatenBytes,
    isDraggingLocal, lastByteSpawn,
    \* history: how each byte was last captured, sessions closed while in progress,
    \* the clock at which each deposit-captured byte was deposited,
    \* Skip Game & Deploy was chosen in a game in progress and no start-deployment
    \* request has been issued since
    capturedBy, cancelled, capturedAt, skipped,
    \* the countdown callbacks the latest session has run
    beats,
    \* the API routes (pages/api/start-deployment.ts, restart-deployment.ts): where
    \* the handler of the request being served stands, the request, the calls
    \* sent to Railway, the responses produced, the handler's locals
    apiPc, apiReq, apiSent, apiReplies, apiLocals

shellVars == <<boredMode, showGame, gameResult, timeLeft, isDeploying, isLoading, bytesWrangled>>
hostVars == <<gameIntervalRef, animationRef, startTimer, reopenTimers, intervals, frames,
              listeners, canvasAlive, requests>>
clockVars == <<now>>
gameVars == <<sid, closure, bytes, ghosts, controller, caughtBytes, eatenBytes,
              isDraggingLocal, lastByteSpawn>>
histVars == <<capturedBy, cancelled, capturedAt, skipped, beats>>
apiVars == <<apiPc, apiReq, apiSent, apiReplies, apiLocals>>
pageVars == <<shellVars, hostVars, clockVars, gameVars, histVars>>
vars == <<pageVars, apiVars>>

\* ------------------------------------------------------- arithmetic
Square(n) == n * n

\* Math.sqrt, rounded down to a whole unit
ISqrt(n) == CHOOSE r \in 0..(canvasWidth + canvasHeight) : r * r <= n /\ (r + 1) * (r + 1) > n

\* a / b rounded toward zero (b > 0)
TDiv(a, b) == IF a >= 0 THEN a \div b ELSE -((-a) \div b)

\* Math.max(0, Math.min(hi, v))
Clamp(v, hi) == Max(0, Min(hi, v))

\* Math.sqrt(dx ** 2 + dy ** 2) < reach, for reach >= 0
Within(ax, ay, bx, by, reach) == Square(ax - bx) + Square(ay - by) < Square(reach)

\* ------------------------------------------------------ entity model
NewByte(x, y, vx, vy) ==
    [x |-> x, y |-> y, vx |-> vx, vy |-> vy, size |-> 10 * Unit, color |-> 0,
     caught |-> FALSE, grabbed |-> FALSE, targetX |-> 0, targetY |-> 0]

NewGhost(x, y, vx, vy) ==
    [x |-> x, y |-> y, vx |-> vx, vy |-> vy, size |-> 16 * Unit]

\* places the random draws of startGame and of the respawn step are taken from
Home == [x |-> 300 * Unit, y |-> 200 * Unit]     \* the controller's first position
Lair == [x |-> 100 * Unit, y |-> 100 * Unit]     \* where the ghosts sit
Far == [x |-> 500 * Unit, y |-> 50 * Unit]       \* away from everything

ByteAt(p) == NewByte(p.x, p.y, 0, 0)
GhostAt(p) == NewGhost(p.x, p.y, 0, 0)

\* Math.random() draws of startGame, 20 bytes and 3 ghosts:
\* six bytes on the ghosts and the others on the controller, in the container
Feast == [bytes |-> [i \in 1..totalBytes |-> IF i <= 6 THEN ByteAt(Lair) ELSE ByteAt(Home)],
          ghosts |-> [i \in 1..totalGhosts |-> GhostAt(Lair)]]
\* seven bytes on the ghosts and the others out of the way
Swarm == [bytes |-> [i \in 1..totalBytes |-> IF i <= 7 THEN ByteAt(Lair) ELSE ByteAt(Far)],
          ghosts |-> [i \in 1..totalGhosts |-> GhostAt(Lair)]]
\* every byte on the controller and the ghosts out of the way
Calm == [bytes |-> [i \in 1..totalBytes |-> ByteAt(Home)],
         ghosts |-> [i \in 1..totalGhosts |-> GhostAt(Far)]]

\* a ghost one unit short of the right wall, and one three units off the left wall
Brink == [x |-> canvasWidth - 16 * Unit - 1, y |-> 300 * Unit]
Verge == [x |-> 3, y |-> 300 * Unit]

\* twelve bytes on the controller and the others out of the way, none of them
\* moving; one ghost drifting right from its place, the others heading for a wall
Patrol == [bytes |-> [i \in 1..totalBytes |-> IF i <= 12 THEN ByteAt(Home) ELSE ByteAt(Far)],
           ghosts |-> <<NewGhost(Lair.x, Lair.y, 1, 0), NewGhost(Brink.x, Brink.y, 1, -1),
                        NewGhost(Verge.x, Verge.y, -1, 1)>>]

\* a byte just outside the reach of a ghost that stands in the container, and
\* the pointer position from which that byte is within the cursor's reach
Snag == [x |-> 241 * Unit, y |-> 210 * Unit]
Post == [x |-> 270 * Unit, y |-> 210 * Unit]
Grip == [x |-> 262 * Unit, y |-> 210 * Unit]
\* a pointer position outside the container, 3 px from the byte at Snag
Perch == [x |-> 244 * Unit, y |-> 210 * Unit]

\* byte 1 at Snag; byte 2 three units off the left wall and heading for it;
\* byte 3, of the largest size, at the far corner of the spawn area and heading
\* for the right and bottom walls at the highest speed; byte 4 heading into the ghosts
\* of the lair; the others out of the way.  One ghost at Post, two in the lair
Gauntlet ==
    [bytes |-> [i \in 1..totalBytes |->
                  IF i = 1 THEN ByteAt(Snag)
                  ELSE IF i = 2 THEN NewByte(3, 100 * Unit, -3, 0)
                  ELSE IF i = 3
                  THEN [NewByte((600 - 20) * Unit - 1, (400 - 20) * Unit - 1, 2 * Unit - 1, 2 * Unit - 1)
                          EXCEPT !.size = 12 * Unit]
                  ELSE IF i = 4 THEN NewByte(Lair.x + 26 * Unit + 2, Lair.y, -2 * Unit, 0)
                  ELSE ByteAt(Far)],
     ghosts |-> <<GhostAt(Post), GhostAt(Lair), GhostAt(Lair)>>]

\* every byte out of the way; one ghost drawn 10 px from the right wall, nearer
\* to it than its own size, and drifting away from it; the others in the lair
Fringe == [bytes |-> [i \in 1..totalBytes |-> ByteAt(Far)],
           ghosts |-> <<NewGhost((600 - 10) * Unit, 300 * Unit, -1, 0), GhostAt(Lair), GhostAt(Lair)>>]

\* the draws the s-th session of a run is started with
Layouts(s) == IF s = 1 THEN {Feast, Swarm, Calm} ELSE {Swarm, Calm}

\* Math.random() draws of one respawn
RespawnDraws ==
    { [x |-> p.x, y |-> p.y, vx |-> 0, vy |-> 0, color |-> 1] : p \in {Home, Lair} }

\* pointer positions, relative to the canvas
MousePoints == {Home, Lair}

\* --------------------------------------------------- the tick pipeline
\* bytes.find(byte => byte.caught): index of the first caught byte, 0 if none
FirstCaught(bs) ==
    IF \E i \in 1..Len(bs) : bs[i].caught
    THEN CHOOSE i \in 1..Len(bs) : bs[i].caught /\ \A j \in 1..(i - 1) : ~bs[j].caught
    ELSE 0

\* RespawnDue that lets every tick through
RespawnDue_EveryTick(t, last) == TRUE

RespawnDue(t, last) == t - last > SpawnIntervalMs

\* Respawn that recycles every caught byte
Respawn_All(bs, t, last, rnd) ==
    IF RespawnDue(t, last)
    THEN [i \in 1..Len(bs) |->
            IF bs[i].caught
            THEN [bs[i] EXCEPT !.x = rnd.x, !.y = rnd.y, !.vx = rnd.vx, !.vy = rnd.vy,
                               !.caught = FALSE, !.grabbed = FALSE, !.color = rnd.color]
            ELSE bs[i]]
    ELSE bs

\* the respawn step: recycle the byte found, with fresh random draws
Respawn(bs, t, last, rnd) ==
    LET i == FirstCaught(bs) IN
    IF RespawnDue(t, last) /\ i # 0
    THEN [bs EXCEPT ![i] = [@ EXCEPT !.x = rnd.x, !.y = rnd.y, !.vx = rnd.vx, !.vy = rnd.vy,
                                     !.caught = FALSE, !.grabbed = FALSE, !.color = rnd.color]]
    ELSE bs

\* the draws one tick makes: Math.random() is called only when a byte is recycled
DrawsFor(bs, t, last) ==
    IF RespawnDue(t, last) /\ FirstCaught(bs) # 0
    THEN RespawnDraws
    ELSE {CHOOSE d \in RespawnDraws : TRUE}

\* ghostSpeedMultiplier that never speeds the ghosts up
ghostSpeedMultiplier_Constant(caught) == 1

ghostSpeedMultiplier(caught) == IF caught >= SpeedThreshold THEN FastMultiplier ELSE 1

\* Bounce that clamps the position and keeps the velocity
Bounce_KeepsVelocity(pos, vel, limit) ==
    [pos |-> Clamp(pos, limit), vel |-> vel]

\* one axis of "move, then bounce off the walls"
Bounce(pos, vel, limit) ==
    IF pos <= 0 \/ pos >= limit
    THEN [pos |-> Clamp(pos, limit), vel |-> -vel]
    ELSE [pos |-> pos, vel |-> vel]

MoveGhost(g, mult) ==
    LET bx == Bounce(g.x + g.vx * mult, g.vx, canvasWidth - g.size)
        by == Bounce(g.y + g.vy * mult, g.vy, canvasHeight - g.size)
    IN  [g EXCEPT !.x = bx.pos, !.vx = bx.vel, !.y = by.pos, !.vy = by.vel]

\* GhostHits that takes every ghost to overlap, whatever the distance
GhostHits_AnyDistance(b, gs) == Len(gs)

\* number of ghosts within reach of byte b; each one runs eatenBytes++
GhostHits(b, gs) ==
    Cardinality({k \in 1..Len(gs) : Within(b.x, b.y, gs[k].x, gs[k].y, gs[k].size + b.size)})

\* FreeStep whose grab check does not ask whether the button is down
FreeStep_GrabsWithoutDrag(b, gs, ctrl, drag) ==
    LET bx == Bounce(b.x + b.vx, b.vx, canvasWidth - b.size)
        by == Bounce(b.y + b.vy, b.vy, canvasHeight - b.size)
        moved == [b EXCEPT !.x = bx.pos, !.vx = bx.vel, !.y = by.pos, !.vy = by.vel]
        grab == Within(moved.x, moved.y, ctrl.x, ctrl.y, controllerSize + moved.size)
        held == IF grab
                THEN [moved EXCEPT !.grabbed = TRUE, !.targetX = ctrl.x, !.targetY = ctrl.y]
                ELSE moved
        hits == GhostHits(held, gs)
    IN  [byte |-> IF hits > 0 THEN [held EXCEPT !.caught = TRUE] ELSE held, hits |-> hits]

\* the branch for a byte that is neither caught nor grabbed
FreeStep(b, gs, ctrl, drag) ==
    LET bx == Bounce(b.x + b.vx, b.vx, canvasWidth - b.size)
        by == Bounce(b.y + b.vy, b.vy, canvasHeight - b.size)
        moved == [b EXCEPT !.x = bx.pos, !.vx = bx.vel, !.y = by.pos, !.vy = by.vel]
        grab == Within(moved.x, moved.y, ctrl.x, ctrl.y, controllerSize + moved.size) /\ drag
        held == IF grab
                THEN [moved EXCEPT !.grabbed = TRUE, !.targetX = ctrl.x, !.targetY = ctrl.y]
                ELSE moved
        hits == GhostHits(held, gs)
    IN  [byte |-> IF hits > 0 THEN [held EXCEPT !.caught = TRUE] ELSE held, hits |-> hits]

InContainer(b) ==
    /\ b.x >= container.x /\ b.x <= container.x + container.width
    /\ b.y >= container.y /\ b.y <= container.y + container.height

\* HeldStep with the deposit left out of the count
HeldStep_Uncounted(b, ctrl) ==
    LET dx == ctrl.x - b.x
        dy == ctrl.y - b.y
        far == Square(dx) + Square(dy) > Square(FollowEpsilon * Unit)
        distance == ISqrt(Square(dx) + Square(dy))
        moved == IF far
                 THEN [b EXCEPT !.x = b.x + TDiv(dx * FollowStep * Unit, distance),
                                !.y = b.y + TDiv(dy * FollowStep * Unit, distance)]
                 ELSE b
    IN  IF InContainer(moved)
        THEN [byte |-> [moved EXCEPT !.caught = TRUE, !.grabbed = FALSE], dep |-> 0]
        ELSE [byte |-> moved, dep |-> 0]

\* the branch for a byte that is grabbed and not caught
HeldStep(b, ctrl) ==
    LET dx == ctrl.x - b.x
        dy == ctrl.y - b.y
        far == Square(dx) + Square(dy) > Square(FollowEpsilon * Unit)
        distance == ISqrt(Square(dx) + Square(dy))
        moved == IF far
                 THEN [b EXCEPT !.x = b.x + TDiv(dx * FollowStep * Unit, distance),
                                !.y = b.y + TDiv(dy * FollowStep * Unit, distance)]
                 ELSE b
    IN  IF InContainer(moved)
        THEN [byte |-> [moved EXCEPT !.caught = TRUE, !.grabbed = FALSE], dep |-> 1]
        ELSE [byte |-> moved, dep |-> 0]

\* UpdateByte whose first branch also takes the bytes that are caught
UpdateByte_MovesCaptured(b, gs, ctrl, drag) ==
    LET s1 == IF ~b.grabbed THEN FreeStep(b, gs, ctrl, drag)
              ELSE [byte |-> b, hits |-> 0]
        s2 == IF s1.byte.grabbed /\ ~s1.byte.caught THEN HeldStep(s1.byte, ctrl)
              ELSE [byte |-> s1.byte, dep |-> 0]
    IN  [byte |-> s2.byte, hits |-> s1.hits, dep |-> s2.dep]

\* the body of bytes.forEach for one byte
UpdateByte(b, gs, ctrl, drag) ==
    LET s1 == IF ~b.caught /\ ~b.grabbed THEN FreeStep(b, gs, ctrl, drag)
              ELSE [byte |-> b, hits |-> 0]
        s2 == IF s1.byte.grabbed /\ ~s1.byte.caught THEN HeldStep(s1.byte, ctrl)
              ELSE [byte |-> s1.byte, dep |-> 0]
    IN  [byte |-> s2.byte, hits |-> s1.hits, dep |-> s2.dep]

RECURSIVE MoveGhosts(_, _, _)
\* ghosts.forEach over the first n ghosts
MoveGhosts(gs, mult, n) ==
    IF n = 0 THEN <<>> ELSE Append(MoveGhosts(gs, mult, n - 1), MoveGhost(gs[n], mult))

RECURSIVE UpdateBytes(_, _, _, _, _)
\* bytes.forEach over the first n bytes
UpdateBytes(bs, gs, ctrl, drag, n) ==
    IF n = 0 THEN <<>>
    ELSE Append(UpdateBytes(bs, gs, ctrl, drag, n - 1), UpdateByte(bs[n], gs, ctrl, drag))

RECURSIVE SumTo(_, _, _)
SumTo(upd, field, n) ==
    IF n = 0 THEN 0
    ELSE (IF field = "dep" THEN upd[n].dep ELSE upd[n].hits) + SumTo(upd, field, n - 1)

\* Verdict with a win check that asks for more than the total
Verdict_StrictWin(caught, eaten) ==
    IF caught > totalBytes THEN "success"
    ELSE IF eaten >= totalBytes THEN "failed"
    ELSE "playing"

\* Verdict without its lose check
Verdict_NeverLost(caught, eaten) ==
    IF caught >= totalBytes THEN "success" ELSE "playing"

\* the win/lose checks at the end of gameLoop
Verdict(caught, eaten) ==
    IF caught >= totalBytes THEN "success"
    ELSE IF eaten >= totalBytes THEN "failed"
    ELSE "playing"

\* Settle with a respawn that takes the recycled byte off the deposit counter
Settle_RespawnDecrements(g, gs1, upd, t) ==
    LET deps == SumTo(upd, "dep", Len(upd))
        hits == SumTo(upd, "hits", Len(upd))
        back == IF RespawnDue(t, g.lastByteSpawn) /\ FirstCaught(g.bytes) # 0 THEN 1 ELSE 0
    IN  [game |-> [g EXCEPT !.bytes = [i \in 1..Len(upd) |-> upd[i].byte],
                            !.ghosts = gs1,
                            !.caughtBytes = @ + deps - back,
                            !.eatenBytes = @ + hits,
                            !.lastByteSpawn = IF RespawnDue(t, @) THEN t ELSE @],
         deposited |-> deps > 0,
         marks |-> [i \in 1..Len(upd) |->
                      IF upd[i].hits > 0 THEN "ghost" ELSE IF upd[i].dep > 0 THEN "deposit" ELSE "same"],
         verdict |-> Verdict(g.caughtBytes + deps - back, g.eatenBytes + hits)]

\* the counters and the verdict after the byte loop produced upd
Settle(g, gs1, upd, t) ==
    LET deps == SumTo(upd, "dep", Len(upd))
        hits == SumTo(upd, "hits", Len(upd))
    IN  [game |-> [g EXCEPT !.bytes = [i \in 1..Len(upd) |-> upd[i].byte],
                            !.ghosts = gs1,
                            !.caughtBytes = @ + deps,
                            !.eatenBytes = @ + hits,
                            !.lastByteSpawn = IF RespawnDue(t, @) THEN t ELSE @],
         deposited |-> deps > 0,
         marks |-> [i \in 1..Len(upd) |->
                      IF upd[i].hits > 0 THEN "ghost" ELSE IF upd[i].dep > 0 THEN "deposit" ELSE "same"],
         verdict |-> Verdict(g.caughtBytes + deps, g.eatenBytes + hits)]

\* gameLoop below its guard, on the closure's game state g at clock t:
\* respawn, ghosts, bytes, verdict
Tick(g, t, rnd) ==
    LET bs1 == Respawn(g.bytes, t, g.lastByteSpawn, rnd)
        gs1 == MoveGhosts(g.ghosts, ghostSpeedMultiplier(g.caughtBytes), Len(g.ghosts))
    IN  Settle(g, gs1, UpdateBytes(bs1, gs1, g.controller, g.isDraggingLocal, Len(bs1)), t)

\* ------------------------------------------------ lifecycle helpers
NoTimer == [pending |-> FALSE, closure |-> [showGame |-> FALSE, gameResult |-> "playing", isDeploying |-> FALSE]]

\* clearInterval that leaves the interval running
clearInterval_Forgotten(id, ivs) == ivs

clearInterval(id, ivs) == ivs \ {id}

\* cancelAnimationFrame that leaves the frame request in place
cancelAnimationFrame_Forgotten(id, frs) == frs

cancelAnimationFrame(id, frs) == frs \ {id}

\* "Clear intervals ... Remove event listeners" of the three terminal paths,
\* run by a callback of session s on h = [intervals, frames, listeners, refs]
Teardown(s, h) ==
    [h EXCEPT !.intervals = clearInterval(h.gameIntervalRef, @),
              !.frames = cancelAnimationFrame(h.animationRef, @),
              !.listeners = @ \ {s}]

\* the guard at the top of gameLoop, on the values its closure captured
LoopStopped(cl) == ~cl.showGame \/ cl.gameResult # "playing" \/ cl.isDeploying

\* what a call of gameLoop of session s leaves behind, given the result r of its
\* tick: the frame it requests, or the teardown of a terminal verdict
AfterTick(s, h, sh, r) ==
    LET sh1 == [sh EXCEPT !.bytesWrangled = IF r.deposited THEN r.game.caughtBytes ELSE @]
    IN  IF r.verdict # "playing"
        THEN [game |-> r.game, host |-> Teardown(s, h),
              shell |-> [sh1 EXCEPT !.gameResult = r.verdict], marks |-> r.marks]
        ELSE [game |-> r.game,
              host |-> [h EXCEPT !.animationRef = s, !.frames = @ \cup {s}],
              shell |-> sh1, marks |-> r.marks]

\* one call of gameLoop of session s at clock t: g is the closure's game state,
\* h the host's scheduling state, sh the React state it sets
gameLoop(s, cl, g, h, sh, t, rnd) ==
    IF LoopStopped(cl)
    THEN [game |-> g, host |-> h, shell |-> sh, marks |-> [i \in 1..Len(g.bytes) |-> "same"]]
    ELSE AfterTick(s, h, sh, Tick(g, t, rnd))

\* the effect on [showGame, gameResult]: its cleanup clears the start timer, and
\* it arms a new one (closing over the render's state) when the game is shown
EffectTimer(sg, gr, dep) ==
    IF sg = showGame /\ gr = gameResult THEN startTimer
    ELSE IF sg /\ gr = "playing"
         THEN [pending |-> TRUE, closure |-> [showGame |-> sg, gameResult |-> gr, isDeploying |-> dep]]
         ELSE NoTimer

\* a render with the given showGame, gameResult and isDeploying; the canvas is
\* in the page only while the game is shown and playing
Commit(sg, gr, dep) ==
    /\ showGame' = sg
    /\ gameResult' = gr
    /\ isDeploying' = dep
    /\ startTimer' = EffectTimer(sg, gr, dep)
    /\ canvasAlive' = (canvasAlive /\ sg /\ gr = "playing")

Game == [bytes |-> bytes, ghosts |-> ghosts, controller |-> controller,
         caughtBytes |-> caughtBytes, eatenBytes |-> eatenBytes,
         isDraggingLocal |-> isDraggingLocal, lastByteSpawn |-> lastByteSpawn]
Host == [intervals |-> intervals, frames |-> frames, listeners |-> listeners,
         gameIntervalRef |-> gameIntervalRef, animationRef |-> animationRef]
Shell == [gameResult |-> gameResult, bytesWrangled |-> bytesWrangled]

SetGame(g) ==
    /\ bytes' = g.bytes
    /\ ghosts' = g.ghosts
    /\ controller' = g.controller
    /\ caughtBytes' = g.caughtBytes
    /\ eatenBytes' = g.eatenBytes
    /\ isDraggingLocal' = g.isDraggingLocal
    /\ lastByteSpawn' = g.lastByteSpawn

NoGame == [bytes |-> <<>>, ghosts |-> <<>>, controller |-> [x |-> 0, y |-> 0],
           caughtBytes |-> 0, eatenBytes |-> 0, isDraggingLocal |-> FALSE, lastByteSpawn |-> 0]

\* a startGame closure can still run while one of its callbacks is scheduled or
\* one of its listeners sits on the mounted canvas
Reachable(ivs, frs, lst, alive) == sid \in ivs \/ sid \in frs \/ (sid \in lst /\ alive)

\* a handler outside the game leaves the closure alone; a closure that nothing
\* can run any more is garbage, and is dropped from the state
LeaveGame ==
    IF Reachable(intervals', frames', listeners', canvasAlive')
    THEN UNCHANGED <<gameVars, capturedBy, capturedAt>>
    ELSE /\ SetGame(NoGame)
         /\ closure' = NoTimer.closure
         /\ capturedBy' = <<>>
         /\ capturedAt' = <<>>
         /\ UNCHANGED sid

Marked(old, marks) == [i \in DOMAIN old |-> IF marks[i] = "same" THEN old[i] ELSE marks[i]]

\* the clock of each byte's deposit, 0 for a byte that is not deposit-captured
Stamped(old, marks, bs, t) ==
    [i \in DOMAIN old |-> IF marks[i] = "deposit" THEN t
                          ELSE IF marks[i] = "ghost" \/ ~bs[i].caught THEN 0
                          ELSE old[i]]

\* capturedAt is kept only in the runs that ask for it
Stamp(stamp, old, marks, bs, t) == IF stamp THEN Stamped(old, marks, bs, t) ELSE <<>>

\* ------------------------------------------------------ the API routes
\* a request to /api/start-deployment ("start") or /api/restart-deployment
\* ("restart"): its method, whether the body has projectId and serviceId, and
\* whether RAILWAY_API_TOKEN is set in the environment that serves it
Requests ==
    [handler : {"start", "restart"}, method : {"GET", "POST"},
     projectId : BOOLEAN, serviceId : BOOLEAN, token : BOOLEAN]

NoRequest == [handler |-> "none", method |-> "GET", projectId |-> FALSE,
              serviceId |-> FALSE, token |-> FALSE]

\* the locals of a handler: what the lookup returned, the outcome of each
\* mutation that settled, restartSuccess and usedMethod
NoLocals == [lookup |-> "none", outcomes |-> <<>>, restartSuccess |-> FALSE,
             usedMethod |-> "none"]

\* res.status(status).json({error, method})
Reply(status, error, method) == [status |-> status, error |-> error, method |-> method]
Pass == Reply(0, "", "none")

restartableStatuses == {"SUCCESS", "ACTIVE", "COMPLETED", "CRASHED"}

\* what the deployments query can come back with: fetch or json() throws, an
\* errors array, no service, no deployments, a latest deployment without an
\* id, or a latest deployment with an id and one of these statuses
LookupOutcomes ==
    {"throws", "errors", "noService", "noDeployments", "noId"}
        \cup restartableStatuses \cup {"BUILDING", "FAILED"}

\* what a mutation can come back with: fetch or json() throws, an errors array,
\* no errors and no data, or the new deployment
MutationOutcomes == {"throws", "errors", "noData", "ok"}

Strategies == <<"deploymentRestart", "serviceInstanceRedeploy", "deploymentRedeploy">>

\* Validate that looks at the token before the method and the parameters
Validate_TokenFirst(req) ==
    IF ~req.token THEN Reply(500, "Railway API token not configured", "none")
    ELSE IF req.method # "POST" THEN Reply(405, "Method not allowed", "none")
    ELSE IF ~req.projectId \/ ~req.serviceId
    THEN Reply(400, "Missing required parameters: projectId and serviceId", "none")
    ELSE Pass

\* the checks both handlers make before their first fetch
Validate(req) ==
    IF req.method # "POST" THEN Reply(405, "Method not allowed", "none")
    ELSE IF ~req.projectId \/ ~req.serviceId
    THEN Reply(400, "Missing required parameters: projectId and serviceId", "none")
    ELSE IF ~req.token THEN Reply(500, "Railway API token not configured", "none")
    ELSE Pass

\* the code between the deployments query and the first mutation: the reply
\* it returns, or the mutation it sends
AfterLookup(h, o) ==
    IF o = "throws" THEN [reply |-> Reply(500, "exception", "none"), send |-> "none"]
    ELSE IF o = "errors"
    THEN [reply |-> Reply(400, "Failed to get deployments", "none"), send |-> "none"]
    ELSE IF o = "noService"
    THEN [reply |-> Reply(400, "Service not found", "none"), send |-> "none"]
    ELSE IF o = "noDeployments"
    THEN [reply |-> Reply(400, "No deployments found for this service", "none"), send |-> "none"]
    ELSE IF h = "start" THEN [reply |-> Pass, send |-> "deploymentRedeploy"]
    ELSE IF o = "noId"
    THEN [reply |-> Reply(400, "No valid deployment ID found", "none"), send |-> "none"]
    ELSE IF o \notin restartableStatuses
    THEN [reply |-> Reply(400, "Deployment is not in a restartable state", "none"), send |-> "none"]
    ELSE [reply |-> Pass, send |-> "deploymentRestart"]

\* AfterMutation that goes from a failed deploymentRestart straight to
\* deploymentRedeploy
AfterMutation_SkipsSecond(h, m, o) ==
    IF m = "deploymentRedeploy"
    THEN IF o = "ok"
         THEN [reply |-> Reply(200, "", IF h = "restart" THEN "redeploy" ELSE "none"),
               send |-> "none"]
         ELSE [reply |-> Reply(IF o = "throws" THEN 500 ELSE 400, "Failed to redeploy deployment",
                               "none"),
               send |-> "none"]
    ELSE IF o \in {"throws", "errors"}
         THEN [reply |-> Pass, send |-> "deploymentRedeploy"]
         ELSE [reply |-> Reply(200, "", m), send |-> "none"]

\* the code that follows the await of mutation m when it comes back with o
AfterMutation(h, m, o) ==
    IF m = "deploymentRedeploy"
    THEN IF o = "throws" THEN [reply |-> Reply(500, "exception", "none"), send |-> "none"]
         ELSE IF o = "errors"
         THEN [reply |-> Reply(400, "Failed to redeploy deployment (errors)", "none"), send |-> "none"]
         ELSE IF o = "noData"
         THEN [reply |-> Reply(400, "Failed to redeploy deployment", "none"), send |-> "none"]
         ELSE [reply |-> Reply(200, "", IF h = "restart" THEN "redeploy" ELSE "none"),
               send |-> "none"]
    ELSE IF o \in {"throws", "errors"}
         THEN [reply |-> Pass,
               send |-> IF m = "deploymentRestart" THEN "serviceInstanceRedeploy"
                        ELSE "deploymentRedeploy"]
         ELSE [reply |-> Reply(200, "", m), send |-> "none"]

\* --------------------------------------------------------------- Init
Init ==
    /\ boredMode = FALSE
    /\ showGame = FALSE
    /\ gameResult = "playing"
    /\ timeLeft = GameSeconds
    /\ isDeploying = FALSE
    /\ isLoading = FALSE
    /\ bytesWrangled = 0
    /\ gameIntervalRef = 0
    /\ animationRef = 0
    /\ startTimer = NoTimer
    /\ reopenTimers = 0
    /\ intervals = {}
    /\ frames = {}
    /\ listeners = {}
    /\ canvasAlive = FALSE
    /\ requests = 0
    /\ now = PageLoadTime
    /\ sid = 0
    /\ closure = NoTimer.closure
    /\ bytes = <<>>
    /\ ghosts = <<>>
    /\ controller = [x |-> 0, y |-> 0]
    /\ caughtBytes = 0
    /\ eatenBytes = 0
    /\ isDraggingLocal = FALSE
    /\ lastByteSpawn = 0
    /\ capturedBy = <<>>
    /\ capturedAt = <<>>
    /\ cancelled = {}
    /\ skipped = FALSE
    /\ beats = 0
    /\ apiPc = "idle"
    /\ apiReq = NoRequest
    /\ apiSent = <<>>
    /\ apiReplies = <<>>
    /\ apiLocals = NoLocals

\* ------------------------------------------------------------ actions
\* the Bored-Mode button; like the rest of the page it lies under the modal
\* overlay while the game is shown, where the pointer cannot reach it but
\* keyboard focus can
ToggleBoredModeOn(shown) ==
    /\ showGame = shown
    /\ boredMode' = ~boredMode
    /\ UNCHANGED <<showGame, gameResult, timeLeft, isDeploying, isLoading, bytesWrangled>>
    /\ UNCHANGED <<hostVars, clockVars, cancelled, skipped, beats>>
    /\ LeaveGame
    /\ UNCHANGED apiVars

ToggleBoredMode == ToggleBoredModeOn(FALSE)

\* performDeployment without its guard against a deployment in progress
performDeployment_Unguarded(sg) ==
    /\ requests < MaxInFlight
    /\ Commit(sg, gameResult, TRUE)
    /\ isLoading' = TRUE
    /\ requests' = requests + 1
    /\ skipped' = FALSE
    /\ UNCHANGED beats

\* performDeployment up to its fetch
performDeployment(sg) ==
    IF isDeploying
    THEN /\ Commit(sg, gameResult, isDeploying)
         /\ UNCHANGED <<isLoading, requests, skipped, beats>>
    ELSE /\ requests < MaxInFlight
         /\ Commit(sg, gameResult, TRUE)
         /\ isLoading' = TRUE
         /\ requests' = requests + 1
         /\ skipped' = FALSE
         /\ UNCHANGED beats

\* the Redeploy button, clicked on the page or activated under the modal
handleRedeployContainerOn(shown) ==
    /\ showGame = shown
    /\ ~isLoading
    /\ IF boredMode
       THEN /\ Commit(TRUE, "playing", isDeploying)
            /\ timeLeft' = GameSeconds
            /\ UNCHANGED <<isLoading, requests, skipped, beats>>
       ELSE /\ performDeployment(showGame)
            /\ UNCHANGED timeLeft
    /\ UNCHANGED <<boredMode, bytesWrangled, gameIntervalRef, animationRef, reopenTimers,
                   intervals, frames, listeners>>
    /\ UNCHANGED <<clockVars, cancelled>>
    /\ LeaveGame
    /\ UNCHANGED apiVars

handleRedeployContainer == handleRedeployContainerOn(FALSE)

\* performDeployment after its fetch settles (either way): the finally block
DeploymentSettles ==
    /\ requests > 0
    /\ requests' = requests - 1
    /\ isLoading' = FALSE
    /\ Commit(showGame, "playing", FALSE)
    /\ UNCHANGED <<boredMode, timeLeft, bytesWrangled, gameIntervalRef, animationRef,
                   reopenTimers, intervals, frames, listeners>>
    /\ UNCHANGED <<clockVars, cancelled, skipped, beats>>
    /\ LeaveGame
    /\ UNCHANGED apiVars

\* the Deploy Now! / Deploy Anyway button of the game-over screen
DeployNow ==
    /\ showGame /\ gameResult # "playing"
    /\ performDeployment(FALSE)
    /\ UNCHANGED <<boredMode, timeLeft, bytesWrangled, gameIntervalRef, animationRef,
                   reopenTimers, intervals, frames, listeners>>
    /\ UNCHANGED <<clockVars, cancelled>>
    /\ LeaveGame
    /\ UNCHANGED apiVars

\* the start timer of the effect fires: startGame, with its first gameLoop call.
\* layouts are the initial draws it can make; stamp says whether the run keeps
\* the capturedAt history.  A re-open timer of restartGame that is still pending
\* was set earlier with the same delay of 100 ms, and fires first
startGameWithin(cap, layouts, stamp) ==
    /\ startTimer.pending
    /\ reopenTimers = 0
    /\ sid < cap
    /\ IF ~(showGame /\ gameResult = "playing")
       THEN /\ startTimer' = NoTimer
            /\ UNCHANGED <<showGame, gameResult, isDeploying, bytesWrangled, canvasAlive,
                           gameIntervalRef, animationRef, intervals, frames, listeners>>
            /\ UNCHANGED <<gameVars, capturedBy, capturedAt>>
       ELSE \E layout \in layouts : \E rnd \in DrawsFor(layout.bytes, now, 0) :
            LET s == sid + 1
                g0 == [bytes |-> layout.bytes, ghosts |-> layout.ghosts,
                       controller |-> [x |-> canvasWidth \div 2, y |-> canvasHeight \div 2],
                       caughtBytes |-> 0, eatenBytes |-> 0,
                       isDraggingLocal |-> FALSE, lastByteSpawn |-> 0]
                h0 == [Host EXCEPT !.intervals = clearInterval(gameIntervalRef, @),
                                   !.frames = cancelAnimationFrame(animationRef, @),
                                   !.listeners = @ \cup {s}]
            IN  \E r \in {gameLoop(s, startTimer.closure, g0, h0, Shell, now, rnd)} :
                /\ sid' = s
                /\ closure' = startTimer.closure
                /\ SetGame(r.game)
                /\ capturedBy' = Marked([i \in 1..totalBytes |-> "none"], r.marks)
                /\ capturedAt' = Stamp(stamp, [i \in 1..totalBytes |-> 0], r.marks, r.game.bytes, now)
                /\ gameResult' = r.shell.gameResult
                /\ bytesWrangled' = r.shell.bytesWrangled
                /\ intervals' = r.host.intervals \cup {s}
                /\ gameIntervalRef' = s
                /\ frames' = r.host.frames
                /\ animationRef' = r.host.animationRef
                /\ listeners' = r.host.listeners
                /\ startTimer' = NoTimer
                /\ canvasAlive' = (r.shell.gameResult = "playing")
                /\ UNCHANGED <<showGame, isDeploying>>
    /\ UNCHANGED <<boredMode, timeLeft, isLoading, reopenTimers, requests, cancelled, skipped>>
    /\ beats' = 0
    /\ UNCHANGED clockVars
    /\ UNCHANGED apiVars

startGameOn(layouts, stamp) == startGameWithin(MaxSessions, layouts, stamp)

startGame == startGameOn(Layouts(sid + 1), FALSE)

\* the animation frame requested by gameLoop of session s fires at clock t
FrameAt(s, t, stamp) ==
    /\ s \in frames
    /\ s = sid
    /\ now' = t
    /\ \E rnd \in DrawsFor(bytes, t, lastByteSpawn) :
        \E r \in {gameLoop(s, closure, Game, [Host EXCEPT !.frames = @ \ {s}], Shell, t, rnd)} :
            /\ SetGame(r.game)
            /\ capturedBy' = Marked(capturedBy, r.marks)
            /\ capturedAt' = Stamp(stamp, capturedAt, r.marks, r.game.bytes, t)
            /\ bytesWrangled' = r.shell.bytesWrangled
            /\ intervals' = r.host.intervals
            /\ frames' = r.host.frames
            /\ animationRef' = r.host.animationRef
            /\ listeners' = r.host.listeners
            /\ Commit(showGame, r.shell.gameResult, isDeploying)
    /\ UNCHANGED <<boredMode, timeLeft, isLoading, gameIntervalRef, reopenTimers, requests,
                   sid, closure, cancelled, skipped, beats>>
    /\ UNCHANGED apiVars

\* a frame that fires at the clock the model is at
Frame(s) == FrameAt(s, now, FALSE)

\* the countdown interval of session s fires: setTimeLeft(prev => ...)
CountdownOn(s, count) ==
    /\ s \in intervals
    /\ IF timeLeft <= 1
       THEN LET h == Teardown(s, Host)
            IN  /\ timeLeft' = 0
                /\ intervals' = h.intervals
                /\ frames' = h.frames
                /\ listeners' = h.listeners
                /\ Commit(showGame, "failed", isDeploying)
       ELSE /\ timeLeft' = timeLeft - 1
            /\ UNCHANGED <<showGame, gameResult, isDeploying, startTimer, canvasAlive,
                           intervals, frames, listeners>>
    /\ UNCHANGED <<boredMode, isLoading, bytesWrangled, gameIntervalRef, animationRef,
                   reopenTimers, requests>>
    /\ beats' = IF count /\ s = sid THEN Min(beats + 1, GameSeconds + 1) ELSE beats
    /\ UNCHANGED <<clockVars, gameVars, capturedBy, cancelled, capturedAt, skipped>>
    /\ UNCHANGED apiVars

Countdown(s) == CountdownOn(s, FALSE)

\* the canvas listeners of the running session
ListenersLive == sid \in listeners /\ canvasAlive

handleMouseMove(p) ==
    /\ ListenersLive
    /\ controller' = [x |-> p.x, y |-> p.y]
    /\ UNCHANGED <<sid, closure, bytes, ghosts, caughtBytes, eatenBytes, isDraggingLocal, lastByteSpawn>>
    /\ UNCHANGED <<shellVars, hostVars, clockVars, histVars>>
    /\ UNCHANGED apiVars

\* handleMouseDown that runs the grab check itself
handleMouseDown_Grabs ==
    /\ ListenersLive
    /\ isDraggingLocal' = TRUE
    /\ bytes' = [i \in 1..Len(bytes) |->
                   IF /\ ~bytes[i].caught /\ ~bytes[i].grabbed
                      /\ Within(bytes[i].x, bytes[i].y, controller.x, controller.y,
                                controllerSize + bytes[i].size)
                   THEN [bytes[i] EXCEPT !.grabbed = TRUE]
                   ELSE bytes[i]]
    /\ UNCHANGED <<sid, closure, ghosts, controller, caughtBytes, eatenBytes, lastByteSpawn>>
    /\ UNCHANGED <<shellVars, hostVars, clockVars, histVars>>
    /\ UNCHANGED apiVars

handleMouseDown ==
    /\ ListenersLive
    /\ isDraggingLocal' = TRUE
    /\ UNCHANGED <<sid, closure, bytes, ghosts, controller, caughtBytes, eatenBytes, lastByteSpawn>>
    /\ UNCHANGED <<shellVars, hostVars, clockVars, histVars>>
    /\ UNCHANGED apiVars

\* handleMouseUp that lets go of the bytes that are grabbed
handleMouseUp_Releases ==
    /\ ListenersLive
    /\ isDraggingLocal' = FALSE
    /\ bytes' = [i \in 1..Len(bytes) |-> [bytes[i] EXCEPT !.grabbed = FALSE]]
    /\ UNCHANGED <<sid, closure, ghosts, controller, caughtBytes, eatenBytes, lastByteSpawn>>
    /\ UNCHANGED <<shellVars, hostVars, clockVars, histVars>>
    /\ UNCHANGED apiVars

handleMouseUp ==
    /\ ListenersLive
    /\ isDraggingLocal' = FALSE
    /\ UNCHANGED <<sid, closure, bytes, ghosts, controller, caughtBytes, eatenBytes, lastByteSpawn>>
    /\ UNCHANGED <<shellVars, hostVars, clockVars, histVars>>
    /\ UNCHANGED apiVars

\* the Skip Game & Deploy button, shown while playing
closeGameNoting(note) ==
    /\ showGame /\ gameResult = "playing"
    /\ Commit(FALSE, "playing", FALSE)
    /\ bytesWrangled' = 0
    /\ intervals' = clearInterval(gameIntervalRef, intervals)
    /\ frames' = cancelAnimationFrame(animationRef, frames)
    /\ cancelled' = IF sid \in intervals /\ canvasAlive THEN cancelled \cup {sid} ELSE cancelled
    /\ skipped' = IF note /\ sid \in intervals /\ canvasAlive THEN TRUE ELSE skipped
    /\ UNCHANGED beats
    /\ UNCHANGED <<boredMode, timeLeft, isLoading, gameIntervalRef, animationRef, reopenTimers,
                   listeners, requests>>
    /\ UNCHANGED clockVars
    /\ LeaveGame
    /\ UNCHANGED apiVars

closeGame == closeGameNoting(FALSE)

\* the Restart Game / Play Again button
restartGame ==
    /\ showGame
    /\ reopenTimers < MaxReopen
    /\ Commit(FALSE, "playing", FALSE)
    /\ bytesWrangled' = 0
    /\ timeLeft' = GameSeconds
    /\ intervals' = clearInterval(gameIntervalRef, intervals)
    /\ frames' = cancelAnimationFrame(animationRef, frames)
    /\ reopenTimers' = reopenTimers + 1
    /\ UNCHANGED <<boredMode, isLoading, gameIntervalRef, animationRef, listeners, requests>>
    /\ UNCHANGED <<clockVars, cancelled, skipped, beats>>
    /\ LeaveGame
    /\ UNCHANGED apiVars

\* the 100 ms timer of restartGame fires: setShowGame(true)
Reopen ==
    /\ reopenTimers > 0
    /\ reopenTimers' = reopenTimers - 1
    /\ Commit(TRUE, gameResult, isDeploying)
    /\ UNCHANGED <<boredMode, timeLeft, isLoading, bytesWrangled, gameIntervalRef, animationRef,
                   intervals, frames, listeners, requests>>
    /\ UNCHANGED <<clockVars, cancelled, skipped, beats>>
    /\ LeaveGame
    /\ UNCHANGED apiVars

\* time passes; only gameLoop reads the clock, and only to compare it with
\* lastByteSpawn, so the steps that matter are those taken while a frame is
\* pending and the respawn is not yet due; a step is longer than the 100 ms of
\* the start and re-open timers, so none of them is pending across it
ClockAdvance ==
    /\ sid \in frames
    /\ ~startTimer.pending /\ reopenTimers = 0
    /\ ~RespawnDue(now, lastByteSpawn)
    /\ now + ClockStepMs <= PageLoadTime + MaxClockSteps * ClockStepMs
    /\ now' = now + ClockStepMs
    /\ UNCHANGED <<shellVars, hostVars, gameVars, histVars>>
    /\ UNCHANGED apiVars

\* a request arrives at an API route: the handler runs up to its first await
handler(req) ==
    /\ apiPc \in {"idle", "done"}
    /\ apiReq' = req
    /\ apiLocals' = NoLocals
    /\ IF Validate(req) # Pass
       THEN /\ apiReplies' = <<Validate(req)>>
            /\ apiSent' = <<>>
            /\ apiPc' = "done"
       ELSE /\ apiReplies' = <<>>
            /\ apiSent' = <<"GetLatestDeployment">>
            /\ apiPc' = "lookup"
    /\ UNCHANGED pageVars

\* the deployments query settles with outcome o
LookupSettles(o) ==
    /\ apiPc = "lookup"
    /\ apiLocals' = [apiLocals EXCEPT !.lookup = o]
    /\ LET r == AfterLookup(apiReq.handler, o)
       IN  IF r.send = "none"
           THEN /\ apiReplies' = Append(apiReplies, r.reply)
                /\ apiPc' = "done"
                /\ UNCHANGED apiSent
           ELSE /\ apiSent' = Append(apiSent, r.send)
                /\ apiPc' = r.send
                /\ UNCHANGED apiReplies
    /\ UNCHANGED <<apiReq, pageVars>>

\* the mutation the handler awaits settles with outcome o
MutationSettles(o) ==
    /\ apiPc \in {Strategies[k] : k \in 1..Len(Strategies)}
    /\ LET r == AfterMutation(apiReq.handler, apiPc, o)
       IN  /\ apiLocals' = [apiLocals EXCEPT
                              !.outcomes = Append(@, o),
                              !.restartSuccess = r.reply.status = 200 /\ r.reply.method = apiPc,
                              !.usedMethod = IF r.reply.status = 200 /\ r.reply.method = apiPc
                                             THEN apiPc ELSE @]
           /\ IF r.send = "none"
              THEN /\ apiReplies' = Append(apiReplies, r.reply)
                   /\ apiPc' = "done"
                   /\ UNCHANGED apiSent
              ELSE /\ apiSent' = Append(apiSent, r.send)
                   /\ apiPc' = r.send
                   /\ UNCHANGED apiReplies
    /\ UNCHANGED <<apiReq, pageVars>>

Next ==
    \/ ToggleBoredMode
    \/ handleRedeployContainer
    \/ DeploymentSettles
    \/ DeployNow
    \/ startGame
    \/ \E s \in frames : Frame(s)
    \/ \E s \in intervals : Countdown(s)
    \/ \E p \in MousePoints : handleMouseMove(p)
    \/ handleMouseDown
    \/ handleMouseUp
    \/ closeGame
    \/ restartGame
    \/ Reopen
    \/ ClockAdvance

Spec == Init /\ [][Next]_vars


\* ------------------------------------------------------------- claims
Terminal == gameResult \in {"success", "failed"}

\* a step of the frame callback, of the countdown callback, of the tick pipeline
FrameStep == \E s \in frames : Frame(s)
CountdownStep == \E s \in intervals : Countdown(s)
TickStep == startGame \/ FrameStep

\* C1: in every state where the outcome is won or lost, no countdown interval
\* and no frame of the session is scheduled and its listeners are removed
C1_TerminalIsTornDown ==
    Terminal => intervals = {} /\ frames = {} /\ sid \notin listeners

\* C2: no frame callback and no countdown callback of a session that was closed
\* with closeGame while in progress is scheduled any more, so none runs
C2_NoCallbackAfterCancel ==
    \A s \in cancelled : s \notin intervals /\ s \notin frames

C2_Witness == sid \in cancelled /\ ~showGame /\ sid \in listeners

\* C3: once the outcome is won or lost it does not turn into the other terminal
\* outcome, and no step of the frame callback or of the countdown callback
\* changes the counters, the remaining time or the entities
C3_TerminalIsFinal ==
    [][Terminal =>
         /\ gameResult' \in {gameResult, "playing"}
         /\ (<<timeLeft, caughtBytes, eatenBytes, bytes, ghosts>>' #
                <<timeLeft, caughtBytes, eatenBytes, bytes, ghosts>>)
              => ~(FrameStep \/ CountdownStep)]_vars

\* C4: the outcome becomes won exactly in a tick whose end-of-tick evaluation
\* finds the deposit counter at or above the total of 20
C4_WonIffAllDeposited ==
    [][(gameResult # "success" /\ gameResult' = "success")
         <=> (caughtBytes' >= totalBytes /\ TickStep)]_vars

C4_Witness == gameResult = "success" /\ caughtBytes >= totalBytes /\ showGame

C6_OneOutcomeByPrecedence ==
    [][gameResult = "playing" =>
         /\ TickStep => /\ gameResult' = "success" <=> caughtBytes' = totalBytes
                        /\ gameResult' = "failed"
                             <=> caughtBytes' # totalBytes /\ eatenBytes' = totalBytes
         /\ CountdownStep => (gameResult' = "failed" <=> timeLeft' = 0)]_vars

\* C7: a byte whose last capture was by a ghost stays captured
C7_NoResurrection ==
    \A i \in DOMAIN bytes : capturedBy[i] = "ghost" => bytes[i].caught

\* the four classes of a byte
IsFree(i) == ~bytes[i].caught /\ ~bytes[i].grabbed
IsHeld(i) == bytes[i].grabbed /\ ~bytes[i].caught
IsDeposited(i) == bytes[i].caught /\ capturedBy[i] = "deposit"
IsEaten(i) == bytes[i].caught /\ capturedBy[i] = "ghost"
CountOf(Class(_)) == Cardinality({i \in 1..Len(bytes) : Class(i)})

C9_CountersBounded == caughtBytes <= totalBytes /\ eatenBytes <= totalBytes

\* C10: while a session's closure lasts, no step lowers either counter
C10_CountersMonotone ==
    [][sid' = sid /\ bytes' # <<>> =>
         caughtBytes' >= caughtBytes /\ eatenBytes' >= eatenBytes]_vars

C10_Witness ==
    /\ caughtBytes > 0 /\ eatenBytes > 0
    /\ \E i \in 1..Len(bytes) : bytes[i].color = 1 /\ ~bytes[i].caught

\* the runs that keep the capturedAt history
startGameStamped == startGameOn(Layouts(sid + 1), TRUE)
FrameStamped(s) == FrameAt(s, now, TRUE)
StampedTick == startGameStamped \/ \E s \in frames : FrameStamped(s)

NextStamped ==
    \/ ToggleBoredMode
    \/ handleRedeployContainer
    \/ DeploymentSettles
    \/ DeployNow
    \/ startGameStamped
    \/ \E s \in frames : FrameStamped(s)
    \/ \E s \in intervals : Countdown(s)
    \/ \E p \in MousePoints : handleMouseMove(p)
    \/ handleMouseDown
    \/ handleMouseUp
    \/ closeGame
    \/ restartGame
    \/ Reopen
    \/ ClockAdvance

StampedSpec == Init /\ [][NextStamped]_vars

\* age of the deposit of byte i in the state after a step
DepositAge(i) == now' - capturedAt'[i]

\* C11: after every tick that leaves the session in progress, no byte has been
\* deposit-captured for more than one spawn interval (1000 ms)
C11_DepositRecycledInTime ==
    [][gameResult' = "playing" /\ bytes' # <<>>
         /\ (\E i \in 1..Len(bytes') : IsDeposited(i)' /\ DepositAge(i) > SpawnIntervalMs)
         => ~StampedTick]_vars

\* ---------------------------------------------------------- timed runs
\* runs in which the entities move and every animation frame takes FrameMs of
\* clock time
startGameMoving == startGameOn({Patrol}, FALSE)

FrameTimed(s) ==
    /\ now + FrameMs <= PageLoadTime + MaxFrames * FrameMs
    /\ FrameAt(s, now + FrameMs, FALSE)

NextMotion ==
    \/ ToggleBoredMode
    \/ handleRedeployContainer
    \/ DeploymentSettles
    \/ DeployNow
    \/ startGameMoving
    \/ \E s \in frames : FrameTimed(s)
    \/ \E s \in intervals : Countdown(s)
    \/ \E p \in MousePoints : handleMouseMove(p)
    \/ handleMouseDown
    \/ handleMouseUp
    \/ closeGame
    \/ restartGame
    \/ Reopen

MotionSpec == Init /\ [][NextMotion]_vars

\* the multiplier the claim gives for a tick that starts with deposit counter c
SpeedFor(c) == IF c < SpeedThreshold THEN 1 ELSE FastMultiplier

\* a coordinate after a displacement d, reflected at the walls 0 and limit
Reflected(pos, d, limit) ==
    IF pos + d <= 0 THEN 0 ELSE IF pos + d >= limit THEN limit ELSE pos + d

\* C12: in every tick each ghost is displaced by its velocity times the
\* multiplier of the deposit counter the tick starts with (1 below 10, 2 from
\* 10 on), up to the reflection at the walls, and the multiplier of the counter
\* the tick ends with is not lower
C12_GhostSpeedFollowsCounter ==
    [][now' # now /\ ~LoopStopped(closure) /\ (\E s \in frames : FrameTimed(s))
         => /\ \A k \in 1..Len(ghosts) :
                 /\ ghosts'[k].x = Reflected(ghosts[k].x, ghosts[k].vx * SpeedFor(caughtBytes),
                                             canvasWidth - ghosts[k].size)
                 /\ ghosts'[k].y = Reflected(ghosts[k].y, ghosts[k].vy * SpeedFor(caughtBytes),
                                             canvasHeight - ghosts[k].size)
            /\ SpeedFor(caughtBytes') >= SpeedFor(caughtBytes)]_vars

\* the session is past the threshold and the first ghost has moved by more than
\* its velocity per tick
C12_Witness ==
    /\ gameResult = "playing" /\ caughtBytes >= SpeedThreshold /\ ghosts # <<>>
    /\ ghosts[1].x - Lair.x > (now - PageLoadTime) \div FrameMs + 1

\* a session is in progress: it is shown, undecided, and its closure is running
InProgress == showGame /\ gameResult = "playing" /\ canvasAlive /\ sid \in intervals

\* C13: after closeGame or restartGame on a session in progress, its countdown
\* interval and its frame are cancelled and its listeners are deregistered
C13_CloseAndRestartTearDown ==
    [][InProgress /\ ~showGame' /\ (closeGame \/ restartGame)
         => sid \notin intervals' /\ sid \notin frames' /\ sid \notin listeners']_vars

\* open(): the Redeploy button in bored mode; the re-open that ends restart()
OpenStep == boredMode /\ handleRedeployContainer
ReopenStep == reopenTimers' < reopenTimers /\ Reopen

\* C14: open() and the re-open of restart() leave the shell in the state the
\* session starts from, in progress with 15 s left and no deposits reported, and
\* startGame sets up 20 bytes and 3 ghosts
C14_SessionStartsFresh ==
    [][/\ showGame' /\ startTimer'.pending /\ (OpenStep \/ ReopenStep)
            => gameResult' = "playing" /\ timeLeft' = GameSeconds /\ bytesWrangled' = 0
       /\ sid' # sid => Len(bytes') = totalBytes /\ Len(ghosts') = totalGhosts]_vars

\* ------------------------------------------- the handlers as functions
\* what the shell shows of a session, and the clocks that are active for it
View ==
    [showGame |-> showGame, gameResult |-> gameResult, timeLeft |-> timeLeft,
     bytesWrangled |-> bytesWrangled, isDeploying |-> isDeploying,
     intervals |-> intervals, frames |-> frames,
     startTimer |-> startTimer, reopenTimers |-> reopenTimers]

\* the [showGame, gameResult] effect after a render of v with the given state
EffectOn(v, sg, gr, dep) ==
    IF sg = v.showGame /\ gr = v.gameResult THEN v.startTimer
    ELSE IF sg /\ gr = "playing"
         THEN [pending |-> TRUE, closure |-> [showGame |-> sg, gameResult |-> gr, isDeploying |-> dep]]
         ELSE NoTimer

closeGameOn(v) ==
    [v EXCEPT !.showGame = FALSE, !.gameResult = "playing", !.isDeploying = FALSE,
              !.bytesWrangled = 0,
              !.intervals = clearInterval(gameIntervalRef, @),
              !.frames = cancelAnimationFrame(animationRef, @),
              !.startTimer = EffectOn(v, FALSE, "playing", FALSE)]

\* restartGame that leaves the remaining time as it is
restartGameOn_KeepsTime(v) ==
    [v EXCEPT !.showGame = FALSE, !.gameResult = "playing", !.isDeploying = FALSE,
              !.bytesWrangled = 0,
              !.intervals = clearInterval(gameIntervalRef, @),
              !.frames = cancelAnimationFrame(animationRef, @),
              !.startTimer = EffectOn(v, FALSE, "playing", FALSE),
              !.reopenTimers = @ + 1]

restartGameOn(v) ==
    [v EXCEPT !.showGame = FALSE, !.gameResult = "playing", !.isDeploying = FALSE,
              !.bytesWrangled = 0, !.timeLeft = GameSeconds,
              !.intervals = clearInterval(gameIntervalRef, @),
              !.frames = cancelAnimationFrame(animationRef, @),
              !.startTimer = EffectOn(v, FALSE, "playing", FALSE),
              !.reopenTimers = @ + 1]

\* the 100 ms timer of restartGame
ReopenOn(v) ==
    [v EXCEPT !.showGame = TRUE,
              !.startTimer = EffectOn(v, TRUE, v.gameResult, v.isDeploying),
              !.reopenTimers = @ - 1]

\* handleRedeployContainer in bored mode
openOn(v) ==
    [v EXCEPT !.showGame = TRUE, !.gameResult = "playing", !.timeLeft = GameSeconds,
              !.startTimer = EffectOn(v, TRUE, "playing", v.isDeploying)]

\* the functions above are what the handlers do
HandlersAsFunctions ==
    /\ (showGame /\ ~showGame' /\ closeGame) => View' = closeGameOn(View)
    /\ (reopenTimers' > reopenTimers /\ restartGame) => View' = restartGameOn(View)
    /\ ReopenStep => View' = ReopenOn(View)
    /\ (~showGame /\ showGame' /\ OpenStep) => View' = openOn(View)

\* C15: from every state with the game shown, restartGame followed by its
\* re-open gives the same shell state and the same active clocks as closeGame
\* followed by handleRedeployContainer in bored mode
C15_RestartIsCloseThenOpen ==
    /\ [](showGame => ReopenOn(restartGameOn(View)) = openOn(closeGameOn(View)))
    /\ [][HandlersAsFunctions]_vars

C15_Witness ==
    /\ InProgress /\ timeLeft < GameSeconds /\ bytesWrangled > 0 /\ sid \in frames
    /\ ReopenOn(restartGameOn(View)) # View

\* a session was run and has been closed, and nothing is about to open one
TornDown == sid > 0 /\ ~showGame /\ ~startTimer.pending /\ reopenTimers = 0

\* C16: a step of open(), closeGame or restartGame taken while the session is won
\* or lost, or torn down, changes neither the outcome, the remaining time, the
\* reported count, the shown flag nor the scheduled callbacks
C16_LateCallsAreNoOps ==
    [][(Terminal \/ TornDown) /\ View' # View
         => ~(OpenStep \/ closeGame \/ restartGame)]_vars

\* ------------------------------------------------------- keyboard runs
\* runs in which the page's buttons are also activated from the keyboard while
\* the modal covers them
ToggleBoredModeByKey == ToggleBoredModeOn(TRUE)
handleRedeployContainerByKey == handleRedeployContainerOn(TRUE)

NextKeyboard ==
    \/ ToggleBoredMode
    \/ ToggleBoredModeByKey
    \/ handleRedeployContainer
    \/ handleRedeployContainerByKey
    \/ DeploymentSettles
    \/ DeployNow
    \/ startGame
    \/ \E s \in frames : Frame(s)
    \/ \E s \in intervals : Countdown(s)
    \/ \E p \in MousePoints : handleMouseMove(p)
    \/ handleMouseDown
    \/ handleMouseUp
    \/ closeGame
    \/ restartGame
    \/ Reopen
    \/ ClockAdvance

KeyboardSpec == Init /\ [][NextKeyboard]_vars

\* C17: open() on a session in progress changes neither the remaining time, the
\* counters, the entities, the outcome nor the scheduled frame and countdown,
\* and arms no second start
C17_OpenWhileOpenIsIgnored ==
    [][InProgress /\ boredMode /\ handleRedeployContainerByKey
         => UNCHANGED <<timeLeft, gameResult, caughtBytes, eatenBytes, bytes, ghosts,
                        intervals, frames, startTimer>>]_vars

\* C18: a session starts with 15 s left; while it is in progress the remaining
\* time is changed only by the countdown callback, by exactly one, never below
\* 0, and the callback that leaves 0 records the lost outcome
C18_TimeOnlyCountsDown ==
    /\ [](showGame /\ startTimer.pending => timeLeft = GameSeconds)
    /\ [][InProgress /\ showGame' /\ timeLeft' # timeLeft
            => /\ timeLeft' = timeLeft - 1 /\ timeLeft' >= 0
               /\ timeLeft' = 0 => gameResult' = "failed"
               /\ CountdownStep]_vars

\* no ghost is within range of a collectible, at the positions the tick compared
Clear(bs, gs) ==
    \A i \in 1..Len(bs) : \A k \in 1..Len(gs) :
        ~Within(bs[i].x, bs[i].y, gs[k].x, gs[k].y, gs[k].size + bs[i].size)

\* C19: in a session in progress a tick that finds no ghost within range of a
\* collectible consumes nothing (the consumed counter starts at 0 and stays),
\* and the tick that ends with 20 deposits while time is left records won
C19_AllDepositedUntouchedWins ==
    [][/\ gameResult = "playing" /\ timeLeft > 0 /\ ~LoopStopped(closure')
       /\ \/ /\ eatenBytes' # (IF sid' # sid THEN 0 ELSE eatenBytes)
             /\ Clear(bytes', ghosts')
          \/ /\ caughtBytes' >= totalBytes /\ eatenBytes' = 0
             /\ gameResult' # "success"
       => ~TickStep]_vars

C19_Witness ==
    /\ gameResult = "success" /\ timeLeft > 0 /\ showGame
    /\ caughtBytes = totalBytes /\ eatenBytes = 0
    /\ Clear(bytes, ghosts)

\* ---- runs in which the browser and the network make progress: a timer that
\* is due fires, a requested frame and a countdown interval run, a request
\* that was sent settles; the user is free to act or not
closeGameSkip == closeGameNoting(TRUE)
startGameCalm == startGameOn({Calm}, FALSE)

NextFair ==
    \/ ToggleBoredMode
    \/ handleRedeployContainer
    \/ DeploymentSettles
    \/ DeployNow
    \/ startGameCalm
    \/ \E s \in frames : Frame(s)
    \/ \E s \in intervals : Countdown(s)
    \/ \E p \in MousePoints : handleMouseMove(p)
    \/ handleMouseDown
    \/ handleMouseUp
    \/ closeGameSkip
    \/ restartGame
    \/ Reopen
    \/ ClockAdvance

\* weak fairness of the start timer and of the frame loop, with the enabling
\* condition written out: the timer is pending and due, a frame is requested
StartTimerFires ==
    \/ []<>~(startTimer.pending /\ reopenTimers = 0 /\ sid < MaxSessions)
    \/ []<><<startGameCalm>>_vars

FramesRun == []<>(frames = {}) \/ []<><<FrameStep>>_vars

HostProgress ==
    /\ WF_vars(Reopen)
    /\ WF_vars(CountdownStep)
    /\ WF_vars(DeploymentSettles)
    /\ StartTimerFires
    /\ FramesRun

FairSpec == Init /\ [][NextFair]_vars /\ HostProgress

\* C20: after Skip Game & Deploy is chosen in a game in progress, a
\* start-deployment request is eventually issued
C20_SkipLeadsToDeployment == skipped ~> ~skipped

\* ------------------------------------------------------------ the shell
RedeployStep == handleRedeployContainer
Issued == requests' = requests + 1

C22_AtMostOneRequestInFlight == requests <= 1

\* ------------------------------------------------- the API routes, served
NextApi ==
    \/ \E req \in Requests : handler(req)
    \/ \E o \in LookupOutcomes : LookupSettles(o)
    \/ \E o \in MutationOutcomes : MutationSettles(o)

ApiSpec == Init /\ [][NextApi]_vars

Mutations(sent) == {k \in 1..Len(sent) : sent[k] # "GetLatestDeployment"}
Replied(status) == apiPc = "done" /\ Len(apiReplies) = 1 /\ apiReplies[1].status = status

\* C23: start-deployment answers a non-POST request with 405, else a request
\* without projectId or serviceId with 400, else one served without a token
\* with 500 "Railway API token not configured", each before anything is sent to
\* Railway; a missing service or an empty deployment list is answered with 400
\* and no mutation; a request gets one response, when its handler is done
C23_StartValidatesInOrder ==
    apiReq.handler = "start" =>
        /\ Len(apiReplies) = (IF apiPc = "done" THEN 1 ELSE 0)
        /\ apiReq.method # "POST" => Replied(405) /\ apiSent = <<>>
        /\ apiReq.method = "POST" /\ ~(apiReq.projectId /\ apiReq.serviceId)
             => Replied(400) /\ apiSent = <<>>
        /\ apiReq.method = "POST" /\ apiReq.projectId /\ apiReq.serviceId /\ ~apiReq.token
             => /\ Replied(500) /\ apiSent = <<>>
                /\ apiReplies[1].error = "Railway API token not configured"
        /\ apiLocals.lookup \in {"noService", "noDeployments"}
             => Replied(400) /\ Mutations(apiSent) = {}

C23_Witness ==
    /\ apiReq.handler = "start" /\ apiReq.method = "POST"
    /\ apiReq.projectId /\ apiReq.serviceId /\ ~apiReq.token
    /\ Replied(500)

\* the mutations a handler has sent, in order, and whether the k-th strategy
\* succeeded with outcome o: the first two succeed unless the response has
\* errors or the call throws, the last one needs the new deployment as well
Sent == SubSeq(apiSent, 2, Len(apiSent))
Succeeded(k, o) == IF k < Len(Strategies) THEN o \in {"noData", "ok"} ELSE o = "ok"
Reported(k) == IF k < Len(Strategies) THEN Strategies[k] ELSE "redeploy"

\* C24: restart-deployment sends its mutations in the order deploymentRestart,
\* serviceInstanceRedeploy, deploymentRedeploy, a later one only after every
\* earlier one failed; the first success ends the chain with a 200 that names
\* the strategy; once the chain has begun an error is returned only after all
\* three failed; a latest deployment that is not restartable gets no mutation
C24_RestartFallbackChain ==
    apiReq.handler = "restart" =>
        LET outs == apiLocals.outcomes IN
        /\ Len(Sent) <= Len(Strategies)
        /\ \A k \in 1..Len(Sent) :
              /\ Sent[k] = Strategies[k]
              /\ \A j \in 1..(k - 1) : ~Succeeded(j, outs[j])
        /\ \A k \in 1..Len(outs) :
              Succeeded(k, outs[k])
                 => Len(Sent) = k /\ Replied(200) /\ apiReplies[1].method = Reported(k)
        /\ apiPc = "done" /\ Sent # <<>> /\ apiReplies[1].status # 200
              => Len(outs) = Len(Strategies) /\ \A k \in 1..Len(outs) : ~Succeeded(k, outs[k])
        /\ apiLocals.lookup \notin restartableStatuses => Sent = <<>>

C24_Witness ==
    /\ apiReq.handler = "restart" /\ Replied(200)
    /\ apiLocals.lookup = "CRASHED"
    /\ apiLocals.outcomes = <<"errors", "ok">>
    /\ apiReplies[1].method = "serviceInstanceRedeploy"

\* ------------------------------------------- runs on the field of Gauntlet
startGameField == startGameOn({Gauntlet}, FALSE)

\* a frame that runs FrameMs after the last tick or, once in a run, one that
\* runs ClockStepMs after it (the browser pauses the frames of a hidden tab)
FrameField(s) ==
    LET elapsed == now - PageLoadTime
        gaps == elapsed \div ClockStepMs
        short == (elapsed % ClockStepMs) \div FrameMs
    IN  \/ short < MaxFrames /\ FrameAt(s, now + FrameMs, FALSE)
        \/ gaps = 0 /\ FrameAt(s, now + ClockStepMs, FALSE)

FieldTick == startGameField \/ \E s \in frames : FrameField(s)

NextField ==
    \/ ToggleBoredMode
    \/ handleRedeployContainer
    \/ startGameField
    \/ \E s \in frames : FrameField(s)
    \/ \E s \in intervals : Countdown(s)
    \/ handleMouseMove(Grip)
    \/ handleMouseDown
    \/ handleMouseUp
    \/ closeGame

FieldSpec == Init /\ [][NextField]_vars

\* byte b overlaps one of the ghosts gs
InReach(b, gs) ==
    \E k \in 1..Len(gs) : Within(b.x, b.y, gs[k].x, gs[k].y, gs[k].size + b.size)

Running == showGame /\ gameResult = "playing" /\ ~LoopStopped(closure)

\* C25: a tick of a running session that ends with a byte that was held before
\* it overlapping a ghost leaves that byte consumption-captured
C25_HeldBytesAreConsumed ==
    [][/\ Running /\ sid' = sid /\ bytes # <<>> /\ bytes' # <<>>
       /\ \E i \in 1..Len(bytes) :
             IsHeld(i) /\ InReach(bytes'[i], ghosts') /\ ~IsEaten(i)'
       => ~FieldTick]_vars

\* C26: no tick of a running session deposits a byte that ends the tick
\* overlapping a ghost: such a byte is consumed, not deposited
C26_ConsumptionBeforeDeposit ==
    [][/\ Running /\ sid' = sid /\ bytes # <<>> /\ bytes' # <<>>
       /\ caughtBytes' > caughtBytes
       /\ \E i \in 1..Len(bytes) :
             ~IsDeposited(i) /\ IsDeposited(i)' /\ InReach(bytes'[i], ghosts')
       => ~FieldTick]_vars

\* the bytes a tick leaves consumption-captured, and those among them that
\* were not so before it
EatenAfter == {i \in 1..Len(bytes') : IsEaten(i)'}
EatenAnew == {i \in EatenAfter : sid' # sid \/ ~IsEaten(i)}

\* C27: a tick raises the consumed counter by one per byte it consumes: by at
\* least the number of bytes newly consumed and by no more than the number of
\* bytes consumed at its end (the counter starts at 0 with the session)
C27_OnePerConsumption ==
    [][/\ bytes' # <<>>
       /\ LET inc == eatenBytes' - (IF sid' # sid THEN 0 ELSE eatenBytes)
          IN  inc < Cardinality(EatenAnew) \/ inc > Cardinality(EatenAfter)
       => ~TickStep]_vars

\* where the motion step of a tick takes free byte b, and whether the cursor
\* then engages it: the button is down and b is within the two radii
AfterMotion(b) ==
    [x |-> Reflected(b.x, b.vx, canvasWidth - b.size),
     y |-> Reflected(b.y, b.vy, canvasHeight - b.size)]
Engages(b) ==
    /\ isDraggingLocal
    /\ Square(AfterMotion(b).x - controller.x) + Square(AfterMotion(b).y - controller.y)
          < Square(controllerSize + b.size)

\* C28: a tick of a running session grabs a byte that was free before it
\* exactly when the cursor engages it after its motion step; a byte grabbed
\* ends the tick held, or deposited or consumed by the same tick
C28_GrabbedIffEngaged ==
    [][/\ Running /\ sid' = sid /\ bytes # <<>> /\ bytes' # <<>>
       /\ \E i \in 1..Len(bytes) :
             /\ IsFree(i)
             /\ Engages(bytes[i]) # (bytes'[i].grabbed \/ (bytes'[i].caught /\ capturedBy'[i] = "deposit"))
       => ~FieldTick]_vars

C28_Witness ==
    /\ Running /\ bytes # <<>> /\ isDraggingLocal
    /\ IsHeld(1) /\ controller = [x |-> Grip.x, y |-> Grip.y]
    /\ \E i \in 2..Len(bytes) : IsDeposited(i)

\* a free byte lies inside the box its own size leaves it
InBox(b) == /\ 0 <= b.x /\ b.x <= canvasWidth - b.size
            /\ 0 <= b.y /\ b.y <= canvasHeight - b.size

\* the motion step of velocity v from pos reaches or crosses a wall of its axis
HitsWall(pos, v, limit) == pos + v <= 0 \/ pos + v >= limit

\* one axis of a free byte's tick as the claim gives it
Rebounds(pos, v, limit, pos2, v2) ==
    /\ pos2 = Reflected(pos, v, limit)
    /\ v2 = IF HitsWall(pos, v, limit) THEN -v ELSE v

\* C29: every free byte lies within [0, width - size] x [0, height - size] after
\* every tick, spawn and respawn; on a tick where the motion step reaches or
\* crosses a wall on an axis the velocity of that axis is negated and the
\* position is clamped to that wall, and on other ticks the velocity is unchanged
C29_FreeBytesStayInBox ==
    /\ [](\A i \in 1..Len(bytes) : IsFree(i) => InBox(bytes[i]))
    /\ [][/\ Running /\ sid' = sid /\ bytes # <<>> /\ bytes' # <<>>
          /\ \E i \in 1..Len(bytes) :
                /\ IsFree(i) /\ IsFree(i)'
                /\ ~ /\ Rebounds(bytes[i].x, bytes[i].vx, canvasWidth - bytes[i].size,
                                 bytes'[i].x, bytes'[i].vx)
                     /\ Rebounds(bytes[i].y, bytes[i].vy, canvasHeight - bytes[i].size,
                                 bytes'[i].y, bytes'[i].vy)
          => ~FieldTick]_vars

\* byte 2 has come back from the left wall, byte 3 sits in the bottom right
\* corner with both velocities turned, and a recycled byte is free
C29_Witness ==
    /\ Running /\ bytes # <<>>
    /\ IsFree(2) /\ bytes[2].vx = -Gauntlet.bytes[2].vx /\ bytes[2].x >= 0
    /\ IsFree(3) /\ bytes[3].x = canvasWidth - bytes[3].size /\ bytes[3].vx < 0
    /\ bytes[3].y = canvasHeight - bytes[3].size /\ bytes[3].vy < 0
    /\ \E i \in 1..Len(bytes) : IsFree(i) /\ bytes[i].color = 1

\* the byte the respawn step of the coming tick recycles, 0 if none
Recycled == IF RespawnDue(now', lastByteSpawn) THEN FirstCaught(bytes) ELSE 0

\* C30: a tick leaves every captured byte as it is (position, velocity, flags,
\* the way it was captured), except the one byte the respawn step recycles on
\* that tick
C30_CapturedBytesAreLeftAlone ==
    [][/\ Running /\ sid' = sid /\ bytes # <<>> /\ bytes' # <<>>
       /\ \E i \in 1..Len(bytes) :
             /\ bytes[i].caught /\ i # Recycled
             /\ bytes'[i] # bytes[i] \/ capturedBy'[i] # capturedBy[i]
       => ~FieldTick]_vars

\* byte 4, eaten on the first tick while moving, is still as the ghosts left it
\* after a respawn has recycled another byte
C30_Witness ==
    /\ Running /\ bytes # <<>> /\ now > PageLoadTime + ClockStepMs
    /\ IsEaten(4) /\ bytes[4].vx = Gauntlet.bytes[4].vx
    /\ bytes[4].x = Gauntlet.bytes[4].x + Gauntlet.bytes[4].vx
    /\ \E i \in 1..Len(bytes) : i # 4 /\ bytes[i].color = 1

\* C31: at the end of every tick each byte is free, held or captured: its
\* grabbed flag and its caught flag are never both set
C31_OneStatePerByte ==
    \A i \in 1..Len(bytes) : ~(bytes[i].grabbed /\ bytes[i].caught)

\* the respawn step of a tick that runs when one is due, for the draws rnd
Respawned(rnd) == Respawn(bytes, lastByteSpawn + SpawnIntervalMs + 1, lastByteSpawn, rnd)

\* C32: the respawn step changes only the byte it recycles (position inside the
\* box, velocity and colour drawn anew, grabbed and caught cleared, size kept),
\* and a tick that recycles a byte lowers neither counter
C32_RecyclingTouchesOneByte ==
    /\ [](\A rnd \in RespawnDraws : \A i \in 1..Len(bytes) :
            IF i = FirstCaught(bytes)
            THEN /\ ~Respawned(rnd)[i].caught /\ ~Respawned(rnd)[i].grabbed
                 /\ InBox(Respawned(rnd)[i])
                 /\ Respawned(rnd)[i].size = bytes[i].size
                 /\ Respawned(rnd)[i].vx = rnd.vx /\ Respawned(rnd)[i].vy = rnd.vy
                 /\ Respawned(rnd)[i].color = rnd.color
            ELSE Respawned(rnd)[i] = bytes[i])
    /\ [][/\ Running /\ sid' = sid /\ Recycled # 0
          /\ \/ caughtBytes' < caughtBytes \/ eatenBytes' < eatenBytes
             \/ bytesWrangled' < bytesWrangled
          => ~TickStep]_vars

\* a byte has been recycled and is free while other bytes are still captured
\* and the consumed counter still counts all of them
C32_Witness ==
    /\ Running /\ bytes # <<>>
    /\ \E i \in 1..Len(bytes) : IsFree(i) /\ bytes[i].color = 1
    /\ Cardinality({j \in 1..Len(bytes) : IsEaten(j)}) = 5
    /\ eatenBytes = 18

\* the bytes a step takes out of the captured state
Returned == {i \in 1..Len(bytes) : bytes[i].caught /\ ~bytes'[i].caught}

\* C33: the respawn step is gated by the clock: a tick recycles at most one
\* byte, the first captured one; it attempts a respawn exactly when more than
\* 1000 ms have passed since the last attempt, however many ticks ran in
\* between; an attempt that finds no captured byte changes no byte
C33_RespawnGatedByClock ==
    /\ [](FirstCaught(bytes) = 0 => \A rnd \in RespawnDraws : Respawned(rnd) = bytes)
    /\ [][/\ Running /\ sid' = sid /\ bytes # <<>> /\ bytes' # <<>>
          /\ \/ Cardinality(Returned) > 1
             \/ Returned # {} /\ Returned # {FirstCaught(bytes)}
             \/ /\ Returned # {} \/ lastByteSpawn' # lastByteSpawn
                /\ now' - lastByteSpawn <= SpawnIntervalMs
             \/ now' - lastByteSpawn > SpawnIntervalMs /\ lastByteSpawn' # now'
          => ~FieldTick]_vars

\* several short ticks ran after the attempt of the first tick, and the next
\* attempt, more than 1000 ms after it, has recycled a byte
C33_Witness ==
    /\ Running /\ bytes # <<>>
    /\ lastByteSpawn > PageLoadTime + ClockStepMs + FrameMs
    /\ \E i \in 1..Len(bytes) : bytes[i].color = 1 /\ ~bytes[i].caught

\* a mousemove, mousedown or mouseup event on the canvas
PointerStep == (\E p \in MousePoints : handleMouseMove(p)) \/ handleMouseDown \/ handleMouseUp

\* a step that captures a byte or raises a counter of the running session
Captures ==
    /\ sid' = sid /\ bytes # <<>> /\ bytes' # <<>>
    /\ \/ caughtBytes' > caughtBytes
       \/ eatenBytes' > eatenBytes
       \/ \E i \in 1..Len(bytes) : \/ bytes'[i].caught /\ ~bytes[i].caught
                                   \/ bytes'[i].grabbed /\ ~bytes[i].grabbed

\* C34: a pointer event records the pointer position or the button and leaves
\* the bytes, the ghosts, both counters, the remaining time, the outcome and the
\* scheduled callbacks as they are; bytes are grabbed, eaten and deposited only
\* by a tick
C34_PointerEventsOnlyRecord ==
    [][/\ PointerStep =>
            UNCHANGED <<bytes, ghosts, caughtBytes, eatenBytes, bytesWrangled, timeLeft,
                        gameResult, startTimer, reopenTimers, intervals, frames, capturedBy>>
       /\ Captures => TickStep]_vars

\* the button is down next to a byte that the pointer events have left free
C34_Witness ==
    /\ Running /\ bytes # <<>> /\ isDraggingLocal /\ caughtBytes = 0
    /\ \E i \in 1..Len(bytes) :
          /\ IsFree(i)
          /\ Within(bytes[i].x, bytes[i].y, controller.x, controller.y,
                    controllerSize + bytes[i].size)

\* the runs that count the countdown callbacks of a session, on layout Calm and
\* with the page buttons also reachable under the modal
CountdownCounted(s) == CountdownOn(s, TRUE)

NextBeat ==
    \/ ToggleBoredMode
    \/ ToggleBoredModeByKey
    \/ handleRedeployContainer
    \/ handleRedeployContainerByKey
    \/ DeploymentSettles
    \/ DeployNow
    \/ startGameCalm
    \/ \E s \in frames : Frame(s)
    \/ \E s \in intervals : CountdownCounted(s)
    \/ \E p \in MousePoints : handleMouseMove(p)
    \/ handleMouseDown
    \/ handleMouseUp
    \/ closeGame
    \/ restartGame
    \/ Reopen
    \/ ClockAdvance

BeatSpec == Init /\ [][NextBeat]_vars

\* C35: a session that is neither cancelled nor restarted has reached won or
\* lost once its countdown callback has run 15 times: no session is still in
\* progress after its 15th callback
C35_SessionEndsByFifteenthBeat == InProgress => beats < GameSeconds

\* the runs in which one session follows another
startGameRelay == startGameWithin(MaxRelay, {Swarm, Calm}, FALSE)

NextRelay ==
    \/ ToggleBoredMode
    \/ handleRedeployContainer
    \/ DeploymentSettles
    \/ DeployNow
    \/ startGameRelay
    \/ \E s \in frames : Frame(s)
    \/ \E s \in intervals : Countdown(s)
    \/ \E p \in MousePoints : handleMouseMove(p)
    \/ handleMouseDown
    \/ handleMouseUp
    \/ closeGame
    \/ restartGame
    \/ Reopen

RelaySpec == Init /\ [][NextRelay]_vars

\* C36: at most one countdown interval is active and at most one frame callback
\* is pending, and both belong to the session started last
C36_OneSessionAtATime ==
    /\ Cardinality(intervals) <= 1 /\ intervals \subseteq {sid}
    /\ Cardinality(frames) <= 1 /\ frames \subseteq {sid}

\* the second session of a run is in progress with its own interval and frame
C36_Witness ==
    /\ sid = MaxRelay /\ InProgress
    /\ intervals = {sid} /\ frames = {sid}

\* C37: while a session is in progress the deposit count shown by the shell
\* equals the session's deposit counter
C37_ShellCountMatchesSession == InProgress => bytesWrangled = caughtBytes

\* the runs in which the pointer also rests outside the container
NextHold ==
    \/ ToggleBoredMode
    \/ handleRedeployContainer
    \/ startGameField
    \/ \E s \in frames : FrameField(s)
    \/ \E p \in {Grip, Perch} : handleMouseMove(p)
    \/ handleMouseDown
    \/ handleMouseUp
    \/ closeGame

HoldSpec == Init /\ [][NextHold]_vars

\* a held byte b after a tick, b2: moved toward the pointer by at most the step
\* when it was farther than the epsilon from it, left in place otherwise
Follows(b, b2) ==
    LET far == Square(controller.x - b.x) + Square(controller.y - b.y)
    IN  IF far > Square(FollowEpsilon * Unit)
        THEN /\ b2.x # b.x \/ b2.y # b.y
             /\ Square(b2.x - b.x) + Square(b2.y - b.y) <= Square(FollowStep * Unit)
             /\ Square(controller.x - b2.x) + Square(controller.y - b2.y) < far
        ELSE b2.x = b.x /\ b2.y = b.y

\* what a tick may do to the held byte i
KeptHeld(i) ==
    /\ IsHeld(i)' \/ IsDeposited(i)' \/ IsEaten(i)'
    /\ Follows(bytes[i], bytes'[i])
    /\ bytes'[i].vx = bytes[i].vx /\ bytes'[i].vy = bytes[i].vy

\* C38: a held byte stays held until it is deposited or consumed or the session
\* ends: only a tick changes it, a mouseup does not free it, and a tick moves
\* it toward the pointer exactly when it is farther than 5 from the pointer
C38_HeldUntilDeposited ==
    [][/\ /\ sid' = sid /\ bytes # <<>> /\ bytes' # <<>>
          /\ \E i \in 1..Len(bytes) : IsHeld(i) /\ bytes'[i] # bytes[i]
          => FieldTick
       /\ /\ Running /\ sid' = sid /\ bytes # <<>> /\ bytes' # <<>>
          /\ \E i \in 1..Len(bytes) : IsHeld(i) /\ ~KeptHeld(i)
          => ~FieldTick]_vars

\* the button is up and byte 1 is held and rests where it was grabbed, within
\* the epsilon of the pointer
C38_Witness ==
    /\ Running /\ bytes # <<>> /\ ~isDraggingLocal
    /\ IsHeld(1) /\ bytes[1].x = Snag.x /\ controller = Perch
    /\ now > PageLoadTime + FrameMs

\* the runs in which a ghost is drawn next to the right wall
startGameFringe == startGameOn({Fringe}, FALSE)
FringeTick == startGameFringe \/ \E s \in frames : FrameTimed(s)

NextFringe ==
    \/ ToggleBoredMode
    \/ handleRedeployContainer
    \/ DeploymentSettles
    \/ DeployNow
    \/ startGameFringe
    \/ \E s \in frames : FrameTimed(s)
    \/ \E s \in intervals : Countdown(s)
    \/ closeGame
    \/ restartGame
    \/ Reopen

FringeSpec == Init /\ [][NextFringe]_vars

\* a ghost lies inside the box its own size leaves it
GhostInBox(g) == /\ 0 <= g.x /\ g.x <= canvasWidth - g.size
                 /\ 0 <= g.y /\ g.y <= canvasHeight - g.size

\* C39: in every state of a session there are 3 ghosts and each lies within
\* [0, width - size] x [0, height - size]; every tick moves each ghost by its
\* velocity times the multiplier, and on reaching or crossing a wall the
\* velocity of that axis is negated and the position clamped to the wall
C39_GhostsStayInBox ==
    /\ [](ghosts # <<>> =>
            /\ Len(ghosts) = totalGhosts
            /\ \A k \in 1..Len(ghosts) : GhostInBox(ghosts[k]))
    /\ [][/\ showGame /\ gameResult = "playing" /\ ~LoopStopped(closure)
          /\ sid' = sid /\ ghosts # <<>> /\ ghosts' # <<>>
          /\ \E k \in 1..Len(ghosts) :
                LET m == SpeedFor(caughtBytes)
                IN  ~ /\ Rebounds(ghosts[k].x, ghosts[k].vx * m, canvasWidth - ghosts[k].size,
                                  ghosts'[k].x, ghosts'[k].vx * m)
                      /\ Rebounds(ghosts[k].y, ghosts[k].vy * m, canvasHeight - ghosts[k].size,
                                  ghosts'[k].y, ghosts'[k].vy * m)
          => ~FringeTick]_vars

====
